---- MODULE Spec2Model ----
(***************************************************************************)
(* A model of the CSV ingestion core of linkedin_data_processor.py:        *)
(* LinkedInDataProcessor.process_directory and the methods it calls        *)
(* (_infer_data_type, _normalize_column_name, _create_table, _insert_data),*)
(* together with the SQLite connection they share.                         *)
(*                                                                         *)
(* Strings that the code takes apart (headers, file stems, identifiers)    *)
(* are sequences of one-character strings; cell values, which the code     *)
(* only moves around, are plain strings.                                   *)
(***************************************************************************)
EXTENDS Integers, Sequences, FiniteSets, TLC

(***************************************************************************)
(* Bounds of the model.                                                    *)
(***************************************************************************)
\* the largest number of *.csv files one run discovers
MaxFiles == 2
\* the number of runs of process_directory against the same store file
MaxRuns == 2
\* the number of statements the store refuses ("database is locked", disk I/O
\* error) and of failed opens, over all runs
MaxFaults == 1

(***************************************************************************)
(* Characters and the string functions of Python the code uses.            *)
(***************************************************************************)
LowerCase == <<"a","b","c","d","e","f","g","h","i","j","k","l","m",
               "n","o","p","q","r","s","t","u","v","w","x","y","z">>
UpperCase == <<"A","B","C","D","E","F","G","H","I","J","K","L","M",
               "N","O","P","Q","R","S","T","U","V","W","X","Y","Z">>
Digits == {"0","1","2","3","4","5","6","7","8","9"}

Range(s) == {s[i] : i \in DOMAIN s}

\* the characters the pattern [^a-zA-Z0-9_] does NOT match
IsWordChar(c) == c \in Range(LowerCase) \cup Range(UpperCase) \cup Digits \cup {"_"}

\* str.lower() on one character
LowerChar(c) ==
  IF c \in Range(UpperCase)
    THEN LowerCase[CHOOSE i \in DOMAIN UpperCase : UpperCase[i] = c]
    ELSE c

\* str.lower()
Lower(s) == [i \in DOMAIN s |-> LowerChar(s[i])]

\* re.sub(r'[^a-zA-Z0-9_]', '_', s)
SubNonWord(s) == [i \in DOMAIN s |-> IF IsWordChar(s[i]) THEN s[i] ELSE "_"]

\* str.replace(' ', '_')
ReplaceSpaces(s) == [i \in DOMAIN s |-> IF s[i] = " " THEN "_" ELSE s[i]]

RECURSIVE LStrip(_)
LStrip(s) == IF s # <<>> /\ Head(s) = "_" THEN LStrip(Tail(s)) ELSE s

RECURSIVE RStrip(_)
RStrip(s) ==
  IF s # <<>> /\ s[Len(s)] = "_" THEN RStrip(SubSeq(s, 1, Len(s) - 1)) ELSE s

\* a strip that removes the leading underscores only
StripLeading(s) == LStrip(s)

\* str.strip('_')
Strip(s) == RStrip(LStrip(s))

\* re.sub(r'_+', '_', s)
RECURSIVE CollapseUnderscores(_)
CollapseUnderscores(s) ==
  IF Len(s) < 2 THEN s
  ELSE IF s[1] = "_" /\ s[2] = "_" THEN CollapseUnderscores(Tail(s))
  ELSE <<s[1]>> \o CollapseUnderscores(Tail(s))

W_date == <<"d","a","t","e">>
W_from == <<"f","r","o","m">>
W_to == <<"t","o">>
W_text == <<"t","e","x","t">>

\* _normalize_column_name, lines 30-36: the four textual steps
NormalizeSteps(col_name) == Lower(CollapseUnderscores(Strip(SubNonWord(col_name))))

\* whether the string sub occurs in the string s
Contains(sub, s) ==
  \E i \in 1..(Len(s) - Len(sub) + 1) : SubSeq(s, i, i + Len(sub) - 1) = sub

\* a remap that fires on any name containing `date`, not on the exact word
RemapSubstring(normalized) ==
  IF Contains(W_date, normalized) THEN normalized \o <<"_","c","o","l">>
  ELSE IF normalized \in {W_from, W_to, W_text} THEN <<"c","o","l","_">> \o normalized
  ELSE normalized

\* _normalize_column_name, lines 38-42: the reserved-word remap
Remap(normalized) ==
  IF normalized = W_date THEN W_date \o <<"_","c","o","l">>
  ELSE IF normalized \in {W_from, W_to, W_text} THEN <<"c","o","l","_">> \o normalized
  ELSE normalized

\* _normalize_column_name(col_name): reads and writes no object state
NormalizeColumnName(col_name) == Remap(NormalizeSteps(col_name))

(***************************************************************************)
(* Cell values.  A raw field is a string; the empty field is "".  What     *)
(* pandas.read_csv makes of a column depends on what its fields parse as.  *)
(* A value keeps its text from the parsed table to the stored row, except  *)
(* that a missing value is stored as NULL: the changes of numeric          *)
(* representation on the way (the common dtype of an iterrows row, the     *)
(* type affinity of a column) are left out.  The files modelled have lines *)
(* of equal width, so on_bad_lines='warn' has no line to skip.             *)
(***************************************************************************)
IntTokens == {"1", "2", "3"}
DecTokens == {"1.0", "1.5", "2.0", "3.0"}
TsTokens == {"2020-01-01", "2020-02-02"}
EmptyField == ""
\* the missing-value marker of pandas (numpy.nan); Python's None in a row lookup
NaN == "NaN"
None == "None"

ColumnOf(rows, j) == [i \in DOMAIN rows |-> rows[i][j]]

\* float(field) rendered back as text
ToFloat(v) ==
  CASE v = "1" -> "1.0"
    [] v = "2" -> "2.0"
    [] v = "3" -> "3.0"
    [] v = EmptyField -> NaN
    [] OTHER -> v

\* The dtype read_csv gives a column (no dtype=, no parse_dates= argument is
\* passed at lines 183-212): int64 when every field is a whole number,
\* float64 when every field is a number or empty, object otherwise; a column
\* of a table without rows is object.  datetime64 is never produced.
ReadCsvDtype(vals) ==
  IF vals = <<>> THEN "object"
  ELSE IF \A i \in DOMAIN vals : vals[i] \in IntTokens THEN "int64"
  ELSE IF \A i \in DOMAIN vals : vals[i] \in IntTokens \cup DecTokens \cup {EmptyField}
    THEN "float64"
  ELSE "object"

\* the value read_csv stores for a field of a column of that dtype
ReadCsvValue(v, dtype) ==
  IF dtype = "float64" THEN ToFloat(v)
  ELSE IF v = EmptyField THEN NaN
  ELSE v

\* A parsed table (DataFrame): column labels, the dtype of each column and
\* the rows, each row a tuple positioned like the labels.
DataFrame(columns, dtypes, rows) == [columns |-> columns, dtypes |-> dtypes, rows |-> rows]

\* read_csv with the delimiter the file is written with
ReadCsvFrame(headers, rows) ==
  LET dtypes == [j \in DOMAIN headers |-> ReadCsvDtype(ColumnOf(rows, j))]
  IN DataFrame(headers, dtypes,
       [i \in DOMAIN rows |-> [j \in DOMAIN headers |-> ReadCsvValue(rows[i][j], dtypes[j])]])

RECURSIVE JoinChars(_, _)
JoinChars(seqs, sep) ==
  IF Len(seqs) = 1 THEN seqs[1] ELSE seqs[1] \o <<sep>> \o JoinChars(Tail(seqs), sep)

RECURSIVE JoinFields(_, _)
JoinFields(fields, sep) ==
  IF Len(fields) = 1 THEN fields[1] ELSE fields[1] \o sep \o JoinFields(Tail(fields), sep)

\* read_csv with a delimiter that does not occur in the file: every line is
\* one field, so the table has one column labelled with the whole header line
ReadCsvUnsplit(headers, rows, sep) ==
  ReadCsvFrame(<<JoinChars(headers, sep)>>,
               [i \in DOMAIN rows |-> <<JoinFields(rows[i], sep)>>])

\* lines 218-222: the manual split; every column is object, an empty field
\* stays the empty string
ManualFrame(headers, rows) ==
  DataFrame(headers, [j \in DOMAIN headers |-> "object"], rows)

\* df.dropna(subset=[df.columns[0]]), lines 231-232
RECURSIVE DropNaRows(_)
DropNaRows(rows) ==
  IF rows = <<>> THEN <<>>
  ELSE IF Head(rows)[1] = NaN THEN DropNaRows(Tail(rows))
  ELSE <<Head(rows)>> \o DropNaRows(Tail(rows))

DropNaFirstColumn(df) ==
  IF Len(df.columns) > 0 THEN [df EXCEPT !.rows = DropNaRows(df.rows)] ELSE df

\* _infer_data_type(series): decided by the dtype of the series alone
InferDataType(dtype) ==
  IF dtype = "int64" THEN "INTEGER"
  ELSE IF dtype = "float64" THEN "REAL"
  ELSE IF dtype = "datetime64" THEN "TIMESTAMP"
  ELSE "TEXT"

(***************************************************************************)
(* Source files.  A file is its path, its stem (csv_file.stem), the table  *)
(* its text holds (header line and data lines, fields as written) and what *)
(* is wrong with its bytes, which decides how each reader call ends:       *)
(*   clean          nothing                                                *)
(*   latin1         bytes that are not valid UTF-8                         *)
(*   midquote       a field that opens a quote it never closes, not at the *)
(*                  start of a line (read_csv: "EOF inside string" with    *)
(*                  the comma delimiter, one field per line with ';')      *)
(*   leadquote      the same at the start of a line (every read_csv call   *)
(*                  raises ParserError)                                    *)
(*   leadquote_wide leadquote, and a data line that the manual split cuts  *)
(*                  into more fields than the header has                   *)
(***************************************************************************)
SourceFile(path, stem, quirk, headers, rows) ==
  [path |-> path, stem |-> stem, quirk |-> quirk, headers |-> headers, rows |-> rows]

H_id == <<"i","d">>
H_Date == <<"D","a","t","e">>
H_To == <<"T","o">>
H_n == <<"n">>
H_k == <<"k">>
H_EmailBang == <<"E","!">>
H_EmailHash == <<"E","#">>

FilePool ==
  { SourceFile("a/Conn.csv", <<"C","o","n","n">>, "clean", <<H_id, H_Date>>,
               << <<"1", "2020-01-01">>, <<"2", "2020-02-02">> >>),
    SourceFile("b/conn.csv", <<"c","o","n","n">>, "clean", <<H_To, H_k, H_n>>,
               << <<"a", "1.0", "">>, <<"", "2", "">> >>),
    SourceFile("mail.csv", <<"m","a","i","l">>, "clean", <<H_EmailBang, H_EmailHash>>,
               << <<"a", "b">> >>),
    SourceFile("nul.csv", <<"n","u","l">>, "clean", <<H_id, H_k>>,
               << <<"1", "1">>, <<"2", "">> >>),
    SourceFile("mq.csv", <<"m","q">>, "midquote", <<H_id, H_To>>,
               << <<"1", "a">> >>),
    SourceFile("l q.csv", <<"l"," ","q">>, "leadquote", <<H_id, H_To>>,
               << <<"", "1">>, <<"3", "a">> >>),
    SourceFile("lw.csv", <<"l","w">>, "leadquote_wide", <<H_id>>, << <<"1">> >>),
    SourceFile("l1.csv", <<"l","1">>, "latin1", <<H_id>>, << <<"1">> >>),
    SourceFile("l1.csv", <<"l","1">>, "clean", <<H_id>>, << <<"1">> >>) }

Paths == {f.path : f \in FilePool}

\* list(self.input_dir.rglob('*.csv')), line 175: the files found, in the
\* order the file system yields them
Directories ==
  UNION { { d \in [1..n -> FilePool] : \A i, j \in 1..n : i # j => d[i].path # d[j].path }
          : n \in 0..MaxFiles }

(***************************************************************************)
(* The reader calls of process_directory.                                  *)
(***************************************************************************)
NoneFrame == [none |-> TRUE]
Returned(df) == [status |-> "ok", df |-> df]
Raised(exc) == [status |-> exc, df |-> NoneFrame]

\* pd.read_csv(csv_file, delimiter=..., on_bad_lines='warn', encoding=...)
\* (quotechar='"' is the default of read_csv, so passing it changes nothing)
ReadCsv(f, delimiter, encoding) ==
  IF f.quirk \in {"leadquote", "leadquote_wide"} THEN Raised("ParserError")
  ELSE IF f.quirk = "midquote" /\ delimiter = "," THEN Raised("ParserError")
  ELSE IF f.quirk = "latin1" /\ encoding = "utf-8" THEN Raised("UnicodeDecodeError")
  ELSE IF delimiter = "," THEN Returned(ReadCsvFrame(f.headers, f.rows))
  ELSE Returned(ReadCsvUnsplit(f.headers, f.rows, ","))

\* lines 218-222: open(csv_file, 'r', encoding='utf-8'), split, pd.DataFrame
ManualParse(f) ==
  IF f.quirk = "latin1" THEN Raised("UnicodeDecodeError")
  ELSE IF f.quirk = "leadquote_wide" THEN Raised("ValueError")
  ELSE Returned(ManualFrame(f.headers, f.rows))

\* the delimiter and the encoding of the reader calls at lines 183, 189, 195,
\* 201, 207 and 212, in the order of the nested try blocks
StrategyDelimiter == <<",", ";", ",", ",", ",", ";">>
StrategyEncoding == <<"utf-8", "utf-8", "utf-8", "latin1", "latin1", "latin1">>
\* whether the call passes quotechar='"'
StrategyQuotechar == <<FALSE, FALSE, TRUE, FALSE, TRUE, FALSE>>

\* csv_file.stem.lower() (line 234), then .replace(' ', '_') (lines 59, 114)
TableName(stem) == ReplaceSpaces(Lower(stem))

TableNames == {TableName(f.stem) : f \in FilePool}

(***************************************************************************)
(* The store: a table is its columns (name and declared type, in the order *)
(* PRAGMA table_info lists them) and its rows.                             *)
(***************************************************************************)
NoTable == [columns |-> <<>>, rows |-> <<>>]
EmptyStore == [t \in TableNames |-> NoTable]

\* a load that does not drop the table first
DropNothing(store, t) == store

\* cursor.execute("DROP TABLE IF EXISTS <t>"), line 104
DropTableIfExists(store, t) == [store EXCEPT ![t] = NoTable]

\* cursor.execute("CREATE TABLE IF NOT EXISTS <t> (<columns>)"), lines 100, 105
CreateTableIfNotExists(store, t, columns) ==
  IF store[t] = NoTable
    THEN [store EXCEPT ![t] = [columns |-> columns, rows |-> <<>>]]
    ELSE store

\* SQLite refuses a CREATE TABLE that names a column twice
\* ("duplicate column name"); sqlite3 raises OperationalError at line 105
DuplicateColumnName(columns) ==
  \E i, j \in DOMAIN columns : i # j /\ columns[i].name = columns[j].name

\* [col[1] for col in PRAGMA table_info(<t>)], lines 128-130
DbColumnNames(store, t) == [i \in DOMAIN store[t].columns |-> store[t].columns[i].name]

\* sqlite3 binds a float nan as NULL; every other value is stored as bound
Bound(v) == IF v \in {NaN, None} THEN "NULL" ELSE v

\* cursor.executemany(insert_query, data), line 161, for the first n tuples
InsertRows(store, t, data, n) ==
  [store EXCEPT ![t].rows =
     @ \o [i \in 1..n |-> [j \in DOMAIN data[i] |-> Bound(data[i][j])]]]

(***************************************************************************)
(* _create_table, lines 61-70: the column mapping and the column list.     *)
(* (The debug block of lines 80-97 compares the quoted table name with     *)
(* strings that end without a quote, so it never runs.)                    *)
(* column_mapping is a dict; it is kept here as the sequence of its items  *)
(* in insertion order (the labels of one parsed table are distinct).       *)
(***************************************************************************)
ColumnDefs(df) ==
  [i \in DOMAIN df.columns |->
     [name |-> NormalizeColumnName(df.columns[i]), type |-> InferDataType(df.dtypes[i])]]

(***************************************************************************)
(* _insert_data, lines 150-158: the tuples to insert.                      *)
(***************************************************************************)
\* a lookup that takes the store's column name for the original header
OrigColUnmapped(mapping, col) == col

\* next((k for k, v in self.column_mapping.items() if v == col), col), line 155
OrigCol(mapping, col) ==
  IF \E i \in DOMAIN mapping : mapping[i].v = col
    THEN mapping[CHOOSE i \in DOMAIN mapping :
                   mapping[i].v = col /\ \A j \in 1..(i - 1) : mapping[j].v # col].k
    ELSE col

\* row.get(orig_col), line 156
RowGet(df, row, label) ==
  IF \E j \in DOMAIN df.columns : df.columns[j] = label
    THEN row[CHOOSE j \in DOMAIN df.columns : df.columns[j] = label]
    ELSE None

RowData(df, row, mapping, db_column_names) ==
  [c \in DOMAIN db_column_names |-> RowGet(df, row, OrigCol(mapping, db_column_names[c]))]

InsertTuples(df, mapping, db_column_names) ==
  [i \in DOMAIN df.rows |-> RowData(df, df.rows[i], mapping, db_column_names)]

(***************************************************************************)
(* State.                                                                  *)
(***************************************************************************)
VARIABLES
  connection,      \* self.connection: "none", "open" or "closed"
  column_mapping,  \* self.column_mapping
  seen_columns,    \* self._seen_columns
  disk,            \* the committed content of the store file
  db,              \* the store as the connection sees it (with its open transaction)
  in_transaction,  \* whether the connection has an open transaction
  input_dir,       \* the *.csv files under self.input_dir, in the order rglob yields them
  csv_files,       \* the list of discovered files of the current run
  idx,             \* the position of the for loop at line 177 in csv_files
  pc,              \* where process_directory stands
  df,              \* the local df
  runs,            \* runs of process_directory started so far
  run_state,       \* "none", "running", "complete", or "fatal"
  attempted,       \* paths of the files the loop has entered in this run, in order
  results,         \* how each of them ended: "ok", "failed" (line 239), "skipped" (line 226)
  tried,           \* the strategies attempted for the current file, in order
  n_open,          \* connections opened in this run
  n_close,         \* connections closed in this run
  data,            \* the list of tuples _insert_data built last
  loaded,          \* per path, the table as its first successful load left it
  faults,          \* statements and opens the store has refused so far
  col_name,        \* the argument of the last call of _normalize_column_name
  normalized,      \* what that call returned
  norm_pc,         \* where that call stands: "none", "called", "returned" or "returned_again"
  norm_calls,      \* the calls of _normalize_column_name so far: argument and result
  request,         \* the last request the viewer served: its route and argument
  view_log,        \* what that request did on its connection, in order
  response,        \* what it returned
  disk_before,     \* the committed content of the store when the current file's iteration began
  mapping_before,  \* column_mapping when the current file's iteration began
  file_log,        \* the statements executed and commits issued in the current iteration
  last_ok,         \* per table, its content after the latest load that ended with line 162
  dropped_since    \* per table, whether a DROP of it was executed since that load

vars == <<connection, column_mapping, seen_columns, disk, db, in_transaction, input_dir,
          csv_files, idx, pc, df, runs, run_state, attempted, results, tried, n_open,
          n_close, data, loaded, faults, col_name, normalized, norm_pc, norm_calls,
          request, view_log, response, disk_before, mapping_before,
          file_log, last_ok, dropped_since>>

store_vars == <<disk, db, in_transaction>>

norm_vars == <<col_name, normalized, norm_pc, norm_calls>>

view_vars == <<request, view_log, response>>

load_vars == <<last_ok, dropped_since>>

\* __init__, lines 8-13
Constructed ==
  /\ connection = "none"
  /\ column_mapping = <<>>
  /\ seen_columns = {}
  /\ in_transaction = FALSE
  /\ csv_files = <<>>
  /\ idx = 1
  /\ pc = "idle"
  /\ df = NoneFrame
  /\ runs = 0
  /\ run_state = "none"
  /\ attempted = <<>>
  /\ results = <<>>
  /\ tried = <<>>
  /\ n_open = 0
  /\ n_close = 0
  /\ data = <<>>
  /\ loaded = [p \in Paths |-> NoTable]
  /\ faults = 0
  /\ normalized = <<>>
  /\ norm_calls = {}
  /\ request = [route |-> "none", arg |-> <<>>]
  /\ view_log = <<>>
  /\ response = [status |-> "none"]
  /\ file_log = <<>>
  /\ mapping_before = <<>>
  /\ last_ok = [t \in TableNames |-> NoTable]
  /\ dropped_since = [t \in TableNames |-> FALSE]

\* the store file does not exist yet
NoStoreFile ==
  /\ disk = EmptyStore
  /\ db = EmptyStore
  /\ disk_before = EmptyStore

\* a processor constructed on a directory, before process_directory is called
Init ==
  /\ Constructed
  /\ NoStoreFile
  /\ input_dir \in Directories
  /\ col_name = <<>>
  /\ norm_pc = "none"

csv_file == csv_files[idx]

\* a loop that stops after its first iteration
LoopDoneAfterFirst(i, files) == i > Len(files) \/ i > 1

\* `for csv_file in csv_files`, line 177: whether the list is exhausted
LoopDone(i, files) == i > Len(files)

\* a handler that catches the store's errors only
ExceptSqliteError(exc) == exc = "OperationalError"

\* `except Exception as e`, line 238: the exceptions the file boundary catches
ExceptException(exc) ==
  exc \in {"ParserError", "UnicodeDecodeError", "EmptyDataError", "ValueError",
           "OperationalError"}

\* a handler that sends the chain on after any exception
ExceptAnyError(exc) == TRUE

\* `except pd.errors.ParserError`, lines 185-214: the exceptions that send the
\* chain on to the next strategy
ExceptParserError(exc) == exc = "ParserError"

(***************************************************************************)
(* process_directory, lines 172-175: open the store, discover the files.   *)
(***************************************************************************)
Connect ==
  /\ pc = "idle"
  /\ runs < MaxRuns
  /\ csv_files' = input_dir
  /\ connection' = "open"
  /\ db' = disk
  /\ in_transaction' = FALSE
  /\ idx' = 1
  /\ pc' = "for"
  /\ runs' = runs + 1
  /\ run_state' = "running"
  /\ attempted' = <<>>
  /\ results' = <<>>
  /\ tried' = <<>>
  /\ n_open' = 1
  /\ n_close' = 0
  /\ data' = <<>>
  /\ disk_before' = disk
  /\ mapping_before' = column_mapping
  /\ file_log' = <<>>
  /\ UNCHANGED <<column_mapping, seen_columns, disk, input_dir, df, loaded, faults,
                 norm_vars, load_vars>>
  /\ UNCHANGED view_vars

\* an open failure that is swallowed: the run goes on to the loop
ConnectFailsAndGoesOn ==
  /\ pc = "idle"
  /\ runs < MaxRuns
  /\ faults < MaxFaults
  /\ faults' = faults + 1
  /\ runs' = runs + 1
  /\ run_state' = "fatal"
  /\ csv_files' = input_dir
  /\ idx' = 1
  /\ pc' = "for"
  /\ attempted' = <<>>
  /\ results' = <<>>
  /\ tried' = <<>>
  /\ n_open' = 0
  /\ n_close' = 0
  /\ data' = <<>>
  /\ disk_before' = disk
  /\ mapping_before' = column_mapping
  /\ file_log' = <<>>
  /\ UNCHANGED <<connection, column_mapping, seen_columns, disk, db, in_transaction,
                 input_dir, df, loaded, norm_vars, load_vars>>
  /\ UNCHANGED view_vars

\* sqlite3.connect raises (line 172): the exception leaves process_directory
ConnectFails ==
  /\ pc = "idle"
  /\ runs < MaxRuns
  /\ faults < MaxFaults
  /\ faults' = faults + 1
  /\ runs' = runs + 1
  /\ run_state' = "fatal"
  /\ csv_files' = <<>>
  /\ idx' = 1
  /\ attempted' = <<>>
  /\ results' = <<>>
  /\ tried' = <<>>
  /\ n_open' = 0
  /\ n_close' = 0
  /\ data' = <<>>
  /\ disk_before' = disk
  /\ mapping_before' = column_mapping
  /\ file_log' = <<>>
  /\ UNCHANGED <<connection, column_mapping, seen_columns, disk, db, in_transaction,
                 input_dir, pc, df, loaded, norm_vars, load_vars>>
  /\ UNCHANGED view_vars

\* Between two runs a file of the directory is rewritten: the path stays,
\* what line 175 finds under it in the next run is another file of the pool.
ModifyFile ==
  /\ pc = "idle"
  /\ runs > 0
  /\ \E i \in DOMAIN input_dir :
       \E f \in FilePool :
         /\ f.path = input_dir[i].path
         /\ f # input_dir[i]
         /\ input_dir' = [input_dir EXCEPT ![i] = f]
  /\ UNCHANGED <<connection, column_mapping, seen_columns, disk, db, in_transaction,
                 csv_files, idx, pc, df, runs, run_state, attempted, results, tried,
                 n_open, n_close, data, loaded, faults, norm_vars, disk_before,
                 mapping_before, file_log,
                 load_vars>>
  /\ UNCHANGED view_vars

\* line 177 with a file left, with the mapping emptied at the start of every
\* iteration instead of at line 62
ForNextResettingMapping ==
  /\ pc = "for"
  /\ ~LoopDone(idx, csv_files)
  /\ df' = NoneFrame
  /\ tried' = <<>>
  /\ data' = <<>>
  /\ attempted' = Append(attempted, csv_file.path)
  /\ pc' = "s1"
  /\ disk_before' = disk
  /\ mapping_before' = column_mapping
  /\ file_log' = <<>>
  /\ column_mapping' = <<>>
  /\ UNCHANGED <<connection, seen_columns, disk, db, in_transaction,
                 input_dir, csv_files, idx, runs, run_state, results, n_open, n_close,
                 loaded, faults, norm_vars, load_vars>>
  /\ UNCHANGED view_vars

\* line 177 with a file left, lines 179-180
ForNext ==
  /\ pc = "for"
  /\ ~LoopDone(idx, csv_files)
  /\ df' = NoneFrame
  /\ tried' = <<>>
  /\ data' = <<>>
  /\ attempted' = Append(attempted, csv_file.path)
  /\ pc' = "s1"
  /\ disk_before' = disk
  /\ mapping_before' = column_mapping
  /\ file_log' = <<>>
  /\ UNCHANGED <<connection, column_mapping, seen_columns, disk, db, in_transaction,
                 input_dir, csv_files, idx, runs, run_state, results, n_open, n_close,
                 loaded, faults, norm_vars, load_vars>>
  /\ UNCHANGED view_vars

\* line 244: self.connection.close(); an open transaction is rolled back
Close ==
  /\ pc = "for"
  /\ LoopDone(idx, csv_files)
  /\ connection' = "closed"
  /\ db' = disk
  /\ in_transaction' = FALSE
  /\ n_close' = n_close + 1
  /\ pc' = "idle"
  /\ run_state' = "complete"
  /\ UNCHANGED <<column_mapping, seen_columns, disk, input_dir, csv_files, idx, df, runs,
                 attempted, results, tried, n_open, data, loaded, faults, norm_vars,
                 disk_before, mapping_before, file_log, load_vars>>
  /\ UNCHANGED view_vars

\* The end of one file's iteration: `continue` at line 242 (or 226), or the
\* end of the try body at line 237.  An exception the handler at line 238
\* does not catch leaves process_directory.
EndFile(how, exc) ==
  IF how = "failed" /\ ~ExceptException(exc)
    THEN /\ pc' = "aborted"
         /\ run_state' = "fatal"
         /\ UNCHANGED <<idx, results>>
    ELSE /\ pc' = "for"
         /\ idx' = idx + 1
         /\ results' = Append(results, how)
         /\ UNCHANGED run_state

(***************************************************************************)
(* Lines 181-226: the chain of reader calls.                               *)
(***************************************************************************)
StrategyPc == <<"s1", "s2", "s3", "s4", "s5", "s6", "s7">>

\* one try block of lines 181-215: the k-th read_csv call and its handler
ReadStrategy(k) ==
  /\ pc = StrategyPc[k]
  /\ tried' = Append(tried, k)
  /\ LET r == ReadCsv(csv_file, StrategyDelimiter[k], StrategyEncoding[k])
     IN IF r.status = "ok"
          THEN /\ df' = r.df
               /\ pc' = "parsed"
               /\ UNCHANGED <<idx, results, run_state>>
          ELSE IF ExceptParserError(r.status)
            THEN /\ pc' = StrategyPc[k + 1]
                 /\ UNCHANGED <<df, idx, results, run_state>>
            ELSE /\ EndFile("failed", r.status)
                 /\ UNCHANGED df
  /\ UNCHANGED <<connection, column_mapping, seen_columns, disk, db, in_transaction,
                 input_dir, csv_files, runs, attempted, n_open, n_close, data, loaded,
                 faults, norm_vars, disk_before, mapping_before, file_log, load_vars>>
  /\ UNCHANGED view_vars

Strategy1 == ReadStrategy(1)
Strategy2 == ReadStrategy(2)
Strategy3 == ReadStrategy(3)
Strategy4 == ReadStrategy(4)
Strategy5 == ReadStrategy(5)
Strategy6 == ReadStrategy(6)

\* lines 217-226: the manual split; any exception is reported and the loop
\* continues with the next file
Strategy7 ==
  /\ pc = StrategyPc[7]
  /\ tried' = Append(tried, 7)
  /\ LET r == ManualParse(csv_file)
     IN IF r.status = "ok"
          THEN /\ df' = r.df
               /\ pc' = "parsed"
               /\ UNCHANGED <<idx, results, run_state>>
          ELSE /\ EndFile("skipped", r.status)
               /\ UNCHANGED df
  /\ UNCHANGED <<connection, column_mapping, seen_columns, disk, db, in_transaction,
                 input_dir, csv_files, runs, attempted, n_open, n_close, data, loaded,
                 faults, norm_vars, disk_before, mapping_before, file_log, load_vars>>
  /\ UNCHANGED view_vars

(***************************************************************************)
(* Lines 227-235: the first-column row drop and _create_table.             *)
(* err is where the store refuses a statement ("database is locked", disk  *)
(* I/O error): at the DROP, at the CREATE, or nowhere.                     *)
(***************************************************************************)
\* a mapping that is never reset: the entries of earlier files stay
KeepColumnMapping(frame) ==
  column_mapping \o
    [i \in DOMAIN frame.columns |->
       [k |-> frame.columns[i], v |-> NormalizeColumnName(frame.columns[i])]]

\* a mapping whose names depend on the mapping of the file before: a name
\* that mapping already holds gets a suffix
DedupColumnMapping(frame) ==
  LET taken == {column_mapping[i].v : i \in DOMAIN column_mapping}
  IN [i \in DOMAIN frame.columns |->
        [k |-> frame.columns[i],
         v |-> IF NormalizeColumnName(frame.columns[i]) \in taken
                 THEN NormalizeColumnName(frame.columns[i]) \o <<"_", "2">>
                 ELSE NormalizeColumnName(frame.columns[i])]]

\* lines 62-66: self.column_mapping = {} and one entry per column of df
BuildColumnMapping(frame) ==
  [i \in DOMAIN frame.columns |->
     [k |-> frame.columns[i], v |-> NormalizeColumnName(frame.columns[i])]]

\* the statements of one call that the store may still refuse
FaultPoints(points) == IF faults < MaxFaults THEN points ELSE {}

CreateTable ==
  /\ pc = "parsed"
  /\ IF df = NoneFrame
       THEN /\ EndFile("failed", "ValueError")
            /\ UNCHANGED <<df, column_mapping, store_vars, faults, norm_vars, file_log,
                           dropped_since>>
       ELSE LET d == DropNaFirstColumn(df)
                t == TableName(csv_file.stem)
                columns == ColumnDefs(d)
                dropped == DropTableIfExists(db, t)
                created == CreateTableIfNotExists(dropped, t, columns)
            IN /\ df' = d
               /\ column_mapping' = BuildColumnMapping(d)
               /\ col_name' = d.columns[Len(d.columns)]
               /\ normalized' = NormalizeColumnName(d.columns[Len(d.columns)])
               /\ norm_pc' = "returned"
               /\ norm_calls' = norm_calls \cup
                    { [col_name |-> m.k, normalized |-> m.v] : m \in Range(BuildColumnMapping(d)) }
               /\ \E err \in {"none"} \cup FaultPoints({"drop", "create"}) :
                    /\ faults' = IF err = "none" THEN faults ELSE faults + 1
                    /\ IF err = "drop"
                         THEN /\ UNCHANGED <<store_vars, file_log, dropped_since>>
                              /\ EndFile("failed", "OperationalError")
                         ELSE IF err = "create" \/ DuplicateColumnName(columns)
                           THEN /\ db' = dropped
                                /\ disk' = IF in_transaction THEN disk ELSE dropped
                                /\ UNCHANGED in_transaction
                                /\ file_log' = file_log \o <<"DROP">>
                                /\ dropped_since' = [dropped_since EXCEPT ![t] = TRUE]
                                /\ EndFile("failed", "OperationalError")
                           ELSE /\ db' = created
                                /\ disk' = created
                                /\ in_transaction' = FALSE
                                /\ file_log' = file_log \o <<"DROP", "CREATE", "COMMIT">>
                                /\ dropped_since' = [dropped_since EXCEPT ![t] = TRUE]
                                /\ pc' = "insert"
                                /\ UNCHANGED <<idx, results, run_state>>
  /\ UNCHANGED <<connection, seen_columns, input_dir, csv_files, runs, attempted, tried,
                 n_open, n_close, data, loaded, disk_before, mapping_before, last_ok>>
  /\ UNCHANGED view_vars

(***************************************************************************)
(* Line 236: _insert_data.  n is the number of tuples executemany inserted *)
(* before the store refused one; all of them when none was refused.        *)
(***************************************************************************)
\* a loader that commits after every row
InsertsCommitEach(n) == [i \in 1..(2 * n) |-> IF i % 2 = 1 THEN "INSERT" ELSE "COMMIT"]

\* the log of n row inserts
Inserts(n) == [i \in 1..n |-> "INSERT"]

InsertData ==
  /\ pc = "insert"
  /\ LET t == TableName(csv_file.stem)
         tuples == InsertTuples(df, column_mapping, DbColumnNames(db, t))
     IN /\ data' = tuples
        /\ \E n \in {Len(tuples)} \cup FaultPoints(0..(Len(tuples) - 1)) :
             LET inserted == InsertRows(db, t, tuples, n)
             IN IF n = Len(tuples)
                  THEN /\ faults' = faults
                       /\ db' = inserted
                       /\ disk' = inserted
                       /\ in_transaction' = FALSE
                       /\ loaded' = IF loaded[csv_file.path] = NoTable
                                      THEN [loaded EXCEPT ![csv_file.path] = inserted[t]]
                                      ELSE loaded
                       /\ file_log' = file_log \o Inserts(n) \o <<"COMMIT">>
                       /\ last_ok' = [last_ok EXCEPT ![t] = inserted[t]]
                       /\ dropped_since' = [dropped_since EXCEPT ![t] = FALSE]
                       /\ EndFile("ok", "none")
                  ELSE /\ faults' = faults + 1
                       /\ db' = inserted
                       /\ disk' = disk
                       /\ in_transaction' = TRUE
                       /\ loaded' = loaded
                       /\ file_log' = file_log \o Inserts(n)
                       /\ UNCHANGED load_vars
                       /\ EndFile("failed", "OperationalError")
  /\ UNCHANGED <<connection, column_mapping, seen_columns, input_dir, csv_files, df, runs,
                 attempted, tried, n_open, n_close, norm_vars, disk_before, mapping_before>>
  /\ UNCHANGED view_vars

Next ==
  \/ Connect
  \/ ConnectFails
  \/ ModifyFile
  \/ ForNext
  \/ Close
  \/ Strategy1
  \/ Strategy2
  \/ Strategy3
  \/ Strategy4
  \/ Strategy5
  \/ Strategy6
  \/ Strategy7
  \/ CreateTable
  \/ InsertData

Spec == Init /\ [][Next]_vars

(***************************************************************************)
(* _normalize_column_name on its own: the function is called with header   *)
(* strings made of at most MaxPieces pieces, among them the four reserved  *)
(* words, words containing them, upper case, digits, underscores and       *)
(* characters outside [a-zA-Z0-9_].                                        *)
(***************************************************************************)
MaxPieces == 3

NormPieces ==
  { W_date, W_from, W_to, W_text, <<"l","o","g","i","n">>, <<"c","o","l">>,
    <<"F","r","o","m">>, <<"D","A","T","E">>, <<"a">>, <<"B">>, <<"7">>,
    <<"_">>, <<"!">>, <<" ">>, <<"!","_">> }

RECURSIVE Concat(_)
Concat(pieces) == IF pieces = <<>> THEN <<>> ELSE Head(pieces) \o Concat(Tail(pieces))

HeaderInputs ==
  { Concat(ps) : ps \in UNION { [1..n -> NormPieces] : n \in 0..MaxPieces } }

\* one call of _normalize_column_name, lines 27-54, on the header col_name
NormalizeCall ==
  /\ norm_pc = "called"
  /\ normalized' = NormalizeColumnName(col_name)
  /\ norm_pc' = "returned"
  /\ norm_calls' = norm_calls \cup
       { [col_name |-> col_name, normalized |-> NormalizeColumnName(col_name)] }
  /\ UNCHANGED <<connection, column_mapping, seen_columns, disk, db, in_transaction,
                 input_dir, csv_files, idx, pc, df, runs, run_state, attempted, results,
                 tried, n_open, n_close, data, loaded, faults, col_name, disk_before,
                 mapping_before,
                 file_log, load_vars>>
  /\ UNCHANGED view_vars

\* the name a call returned is passed to _normalize_column_name again, as
\* when a table's column names come back as the headers of a later file
NormalizeAgain ==
  /\ norm_pc = "returned"
  /\ col_name' = normalized
  /\ normalized' = NormalizeColumnName(normalized)
  /\ norm_pc' = "returned_again"
  /\ norm_calls' = norm_calls \cup
       { [col_name |-> normalized, normalized |-> NormalizeColumnName(normalized)] }
  /\ UNCHANGED <<connection, column_mapping, seen_columns, disk, db, in_transaction,
                 input_dir, csv_files, idx, pc, df, runs, run_state, attempted, results,
                 tried, n_open, n_close, data, loaded, faults, disk_before,
                 mapping_before, file_log, load_vars>>
  /\ UNCHANGED view_vars

\* a processor that is constructed and whose normalizer is about to be called
\* on some header
InitNormalize ==
  /\ Constructed
  /\ NoStoreFile
  /\ input_dir = <<>>
  /\ col_name \in HeaderInputs
  /\ norm_pc = "called"

NextNormalize ==
  \/ NormalizeCall
  \/ NormalizeAgain

SpecNormalize == InitNormalize /\ [][NextNormalize]_vars

(***************************************************************************)
(* The web viewer, src/app.py.  Every request opens its own connection to  *)
(* the store file (get_db_connection, lines 11-14) and sees what is        *)
(* committed.  The viewer is started on a store that earlier runs of the   *)
(* processor have left: each table is absent or holds the load of one of   *)
(* the files of that name.  What a request renders is kept as the tables,  *)
(* columns and rows it read; the search keeps the rows that hold a value.  *)
(***************************************************************************)
\* the table the chain of strategies yields for file f, entered at strategy k
RECURSIVE ChainParse(_, _)
ChainParse(f, k) ==
  IF k = Len(StrategyPc) THEN ManualParse(f)
  ELSE LET r == ReadCsv(f, StrategyDelimiter[k], StrategyEncoding[k])
       IN IF r.status = "ok" \/ ~ExceptParserError(r.status) THEN r
          ELSE ChainParse(f, k + 1)

\* whether a run loads file f when the store refuses nothing
Loadable(f) ==
  /\ ChainParse(f, 1).status = "ok"
  /\ ~DuplicateColumnName(ColumnDefs(DropNaFirstColumn(ChainParse(f, 1).df)))

\* the table such a load leaves
StoredTable(f) ==
  LET d == DropNaFirstColumn(ChainParse(f, 1).df)
      t == TableName(f.stem)
      created == CreateTableIfNotExists(EmptyStore, t, ColumnDefs(d))
      tuples == InsertTuples(d, BuildColumnMapping(d), DbColumnNames(created, t))
  IN InsertRows(created, t, tuples, Len(tuples))[t]

\* what a table of name t can hold
TablesFor(t) ==
  {NoTable} \cup {StoredTable(f) : f \in {g \in FilePool : Loadable(g) /\ TableName(g.stem) = t}}

RECURSIVE StoresOver(_)
StoresOver(names) ==
  IF names = {} THEN {<<>>}
  ELSE LET t == CHOOSE n \in names : TRUE
       IN {(t :> table) @@ rest : table \in TablesFor(t), rest \in StoresOver(names \ {t})}

ViewerStores == StoresOver(TableNames)

\* the statements the routes execute
ReadStatements == {"LIST", "PRAGMA", "SELECT"}

\* what the statements of one request do to the store file: the reads do
\* nothing, a DROP outside a transaction is committed at once
RECURSIVE ViewerEffect(_, _, _)
ViewerEffect(store, log, t) ==
  IF log = <<>> THEN store
  ELSE IF Head(log) = "DROP" THEN ViewerEffect(DropTableIfExists(store, t), Tail(log), t)
  ELSE ViewerEffect(store, Tail(log), t)

\* SELECT name FROM sqlite_master WHERE type='table', lines 21 and 52
TableListing(store) == {t \in TableNames : store[t] # NoTable}

\* a viewer whose index route drops what it lists
IndexLogDropping == <<"connect", "LIST", "DROP", "COMMIT", "close">>

\* index, lines 19-23
IndexLog == <<"connect", "LIST", "close">>

\* index, lines 16-24
ViewIndex ==
  /\ request' = [route |-> "/", arg |-> <<>>]
  /\ view_log' = IndexLog
  /\ response' = [status |-> "200", tables |-> TableListing(disk)]
  /\ disk' = ViewerEffect(disk, IndexLog, CHOOSE t \in TableNames : TRUE)
  /\ UNCHANGED <<connection, column_mapping, seen_columns, db, in_transaction, input_dir,
                 csv_files, idx, pc, df, runs, run_state, attempted, results, tried,
                 n_open, n_close, data, loaded, faults, norm_vars, disk_before,
                 mapping_before, file_log,
                 load_vars>>

\* view_table, lines 28-39: SELECT raises `no such table` for a table that
\* does not exist, and the request ends with an error before line 39
ViewTableLog(exists) ==
  IF exists THEN <<"connect", "PRAGMA", "SELECT", "close">>
  ELSE <<"connect", "PRAGMA", "SELECT">>

\* view_table, lines 26-43
ViewTable(t) ==
  /\ request' = [route |-> "/table", arg |-> t]
  /\ view_log' = ViewTableLog(disk[t] # NoTable)
  /\ response' = IF disk[t] # NoTable
                   THEN [status |-> "200", columns |-> DbColumnNames(disk, t),
                         rows |-> disk[t].rows]
                   ELSE [status |-> "500"]
  /\ disk' = ViewerEffect(disk, ViewTableLog(disk[t] # NoTable), t)
  /\ UNCHANGED <<connection, column_mapping, seen_columns, db, in_transaction, input_dir,
                 csv_files, idx, pc, df, runs, run_state, attempted, results, tried,
                 n_open, n_close, data, loaded, faults, norm_vars, disk_before,
                 mapping_before, file_log,
                 load_vars>>

\* search, lines 52-63: the listing, then SELECT and PRAGMA for each table
SearchLog(n) ==
  <<"connect", "LIST">> \o [i \in 1..(2 * n) |-> IF i % 2 = 1 THEN "SELECT" ELSE "PRAGMA"]
    \o <<"close">>

\* search, lines 66-73, for the empty query: a row is found when one of its
\* values is truthy (`value and query in str(value).lower()`)
FoundRows(rows) ==
  {i \in DOMAIN rows : \E j \in DOMAIN rows[i] : rows[i][j] \notin {"NULL", EmptyField}}

\* search, lines 45-83, with no q or an empty q
ViewSearch ==
  /\ request' = [route |-> "/search", arg |-> <<>>]
  /\ view_log' = SearchLog(Cardinality(TableListing(disk)))
  /\ response' = [status |-> "200",
                  found |-> UNION { {[table |-> t, row |-> i] : i \in FoundRows(disk[t].rows)} :
                                    t \in TableListing(disk) }]
  /\ disk' = ViewerEffect(disk, SearchLog(Cardinality(TableListing(disk))),
                          CHOOSE t \in TableNames : TRUE)
  /\ UNCHANGED <<connection, column_mapping, seen_columns, db, in_transaction, input_dir,
                 csv_files, idx, pc, df, runs, run_state, attempted, results, tried,
                 n_open, n_close, data, loaded, faults, norm_vars, disk_before,
                 mapping_before, file_log,
                 load_vars>>

\* show_relationships, lines 85-110: a fixed page, no connection
ViewRelationships ==
  /\ request' = [route |-> "/relationships", arg |-> <<>>]
  /\ view_log' = <<>>
  /\ response' = [status |-> "200"]
  /\ UNCHANGED <<connection, column_mapping, seen_columns, disk, db, in_transaction,
                 input_dir, csv_files, idx, pc, df, runs, run_state, attempted, results,
                 tried, n_open, n_close, data, loaded, faults, norm_vars, disk_before,
                 mapping_before,
                 file_log, load_vars>>

\* the viewer is started on a store that runs of the processor have left
InitViewer ==
  /\ Constructed
  /\ input_dir = <<>>
  /\ col_name = <<>>
  /\ norm_pc = "none"
  /\ disk \in ViewerStores
  /\ db = disk
  /\ disk_before = disk

NextViewer ==
  \/ ViewIndex
  \/ \E t \in TableNames : ViewTable(t)
  \/ ViewSearch
  \/ ViewRelationships

SpecViewer == InitViewer /\ [][NextViewer]_vars

(***************************************************************************)
(* Properties.                                                             *)
(***************************************************************************)
\* the file the loop entered last
CurrentFile == csv_files[Len(attempted)]

InFile == pc \in {"s1", "s2", "s3", "s4", "s5", "s6", "s7", "parsed", "insert"}

\* how the k-th strategy ends on file f
StrategyOutcome(f, k) ==
  IF k = 7 THEN ManualParse(f).status
  ELSE ReadCsv(f, StrategyDelimiter[k], StrategyEncoding[k]).status

\* C1: no exception of one file ends the run, and the files the loop has
\* entered are the first discovered files, each once, in discovery order;
\* a run that completed has entered and ended every discovered file.
C1_FileFailureIsolated ==
  /\ pc # "aborted"
  /\ Len(attempted) <= Len(csv_files)
  /\ \A i \in DOMAIN attempted : attempted[i] = csv_files[i].path
  /\ Len(attempted) = IF InFile THEN idx ELSE idx - 1
  /\ Len(results) = idx - 1
  /\ run_state = "complete" => Len(results) = Len(csv_files)

\* a run that completed although its first file failed at a store statement
\* and went on to load its second file
C1_Witness ==
  /\ run_state = "complete"
  /\ Len(results) = 2
  /\ results[1] = "failed"
  /\ results[2] = "ok"
  /\ faults = 1

\* C2: in a run the connection is opened once, before the first file, and
\* closed once, after the last file has ended, whatever the files did; while
\* a file is processed (and so whenever a table statement is issued) the
\* connection is open.
C2_OpenOnceCloseOnce ==
  /\ n_open <= 1
  /\ n_close <= 1
  /\ (InFile \/ pc = "for") => connection = "open" /\ n_open = 1 /\ n_close = 0
  /\ n_close = 1 => /\ connection = "closed"
                    /\ n_open = 1
                    /\ pc = "idle"
                    /\ Len(results) = Len(csv_files)
  /\ run_state = "complete" => n_open = 1 /\ n_close = 1

\* a completed run with one file that failed and one that was loaded
C2_Witness ==
  /\ run_state = "complete"
  /\ n_open = 1
  /\ n_close = 1
  /\ connection = "closed"
  /\ "failed" \in Range(results)
  /\ "ok" \in Range(results)

\* C3: the strategies are tried in the order 1..7 with the configurations
\* listed, each only after the one before raised a ParserError, and once a
\* strategy returned a table no other is tried for the file.
C3_StrategyOrder ==
  /\ StrategyDelimiter = <<",", ";", ",", ",", ",", ";">>
  /\ StrategyQuotechar = <<FALSE, FALSE, TRUE, FALSE, TRUE, FALSE>>
  /\ StrategyEncoding = <<"utf-8", "utf-8", "utf-8", "latin1", "latin1", "latin1">>
  /\ tried # <<>> =>
       /\ \A i \in DOMAIN tried : tried[i] = i
       /\ \A i \in 1..(Len(tried) - 1) : StrategyOutcome(CurrentFile, i) = "ParserError"
       /\ pc \in {"parsed", "insert"} => StrategyOutcome(CurrentFile, Len(tried)) = "ok"
       /\ InFile /\ pc \notin {"parsed", "insert"} => pc = StrategyPc[Len(tried) + 1]
  /\ (InFile /\ tried = <<>>) => pc = "s1"

\* a file parsed by the second strategy after the first raised a ParserError
C3_Witness ==
  /\ pc = "parsed"
  /\ tried = <<1, 2>>
  /\ StrategyOutcome(CurrentFile, 1) = "ParserError"

\* the file whose iteration has just ended, and how
JustEnded(how) == pc = "for" /\ results # <<>> /\ results[Len(results)] = how

\* the table of the current file, as committed
CurrentTable == disk[TableName(CurrentFile.stem)]

\* a syntactically valid CSV whose rows all have a first field
ValidCsv(f) == f.quirk = "clean" /\ \A i \in DOMAIN f.rows : f.rows[i][1] # EmptyField

Names(columns) == [i \in DOMAIN columns |-> columns[i].name]

\* C4: once the iteration of a valid CSV of width W with N data rows, all
\* with a first field, has ended (the store having refused no statement),
\* its table has exactly W columns and N rows, whatever the headers are.
C4_ValidCsvGivesWColumnsNRows ==
  (pc = "for" /\ results # <<>> /\ faults = 0 /\ ValidCsv(CurrentFile)) =>
     /\ Len(CurrentTable.columns) = Len(CurrentFile.headers)
     /\ Len(CurrentTable.rows) = Len(CurrentFile.rows)

\* C5: the values of the column mapping are pairwise distinct.
C5_MappingValuesDistinct ==
  \A i, j \in DOMAIN column_mapping :
     i # j => column_mapping[i].v # column_mapping[j].v

\* C6: after a file was processed successfully its table has exactly the
\* columns made from the parsed header row and exactly the rows of the parsed
\* table (those the first-column drop kept), in order, and all of it is
\* committed: nothing of an earlier load of that table name is left.
C6_DestructiveRefresh ==
  JustEnded("ok") =>
     /\ Names(CurrentTable.columns) = [j \in DOMAIN df.columns |-> NormalizeColumnName(df.columns[j])]
     /\ CurrentTable.rows = [i \in DOMAIN df.rows |-> [j \in DOMAIN df.columns |-> Bound(df.rows[i][j])]]
     /\ db = disk
     /\ ~in_transaction

\* b/conn.csv loaded over the table a/Conn.csv had made in the same run, with
\* another header row
C6_Witness ==
  /\ JustEnded("ok")
  /\ results = <<"ok", "ok">>
  /\ attempted = <<"a/Conn.csv", "b/conn.csv">>
  /\ Len(CurrentTable.columns) = 3
  /\ Len(CurrentTable.rows) = 1

\* C7: a successful load of a file leaves its table with the row count and
\* the columns that the first successful load of the same file left.
C7_ReloadSameTable ==
  JustEnded("ok") =>
     /\ Len(CurrentTable.rows) = Len(loaded[CurrentFile.path].rows)
     /\ CurrentTable.columns = loaded[CurrentFile.path].columns

\* a/Conn.csv loaded again in a second run, after b/conn.csv had replaced its
\* table in the first
C7_Witness ==
  /\ JustEnded("ok")
  /\ runs = 2
  /\ faults = 0
  /\ attempted = <<"a/Conn.csv">>
  /\ Len(csv_files) = 2
  /\ csv_files[2].path = "b/conn.csv"
  /\ Len(CurrentTable.rows) = 2

\* C8: every tuple _insert_data builds has one value per column of the
\* store's table, in the store's column order; the value for column c is the
\* row's value under the one original header that the mapping sends to c.
\* (Every column of the table has such a header: the table was made from the
\* same mapping.)
C8_TuplesFollowStoreColumns ==
  LET names == DbColumnNames(db, TableName(CurrentFile.stem))
  IN data # <<>> =>
       /\ Len(data) = Len(df.rows)
       /\ \A i \in DOMAIN data :
            /\ Len(data[i]) = Len(names)
            /\ \A c \in DOMAIN names :
                 /\ Cardinality({j \in DOMAIN column_mapping : column_mapping[j].v = names[c]}) = 1
                 /\ \A j \in DOMAIN column_mapping :
                      column_mapping[j].v = names[c] =>
                        /\ df.columns[j] = column_mapping[j].k
                        /\ data[i][c] = df.rows[i][j]

\* two tuples built for a/Conn.csv, whose headers differ from its column names
C8_Witness ==
  /\ Len(data) = 2
  /\ CurrentFile.path = "a/Conn.csv"
  /\ data[2] = <<"2", "2020-02-02">>
  /\ DbColumnNames(db, TableName(CurrentFile.stem)) = <<H_id, W_date \o <<"_","c","o","l">> >>

\* the type the specification's inferencer gives a column of raw fields
SpecType(vals) ==
  LET nonnull == {vals[i] : i \in DOMAIN vals} \ {EmptyField}
  IN IF nonnull = {} THEN "TEXT"
     ELSE IF nonnull \subseteq IntTokens THEN "INTEGER"
     ELSE IF nonnull \subseteq IntTokens \cup DecTokens THEN "REAL"
     ELSE IF nonnull \subseteq TsTokens THEN "TIMESTAMP"
     ELSE "TEXT"

\* the parsed table has the file's columns (the delimiter was the file's)
SplitAsWritten == df # NoneFrame /\ Len(df.columns) = Len(CurrentFile.headers)

\* C9: every column of a created table has the type the priority order
\* integer, real, timestamp, text gives the non-null fields of its source
\* column, whichever strategy parsed the file.
C9_TypesFollowValues ==
  (pc = "insert" /\ SplitAsWritten) =>
     \A j \in DOMAIN df.columns :
        db[TableName(CurrentFile.stem)].columns[j].type = SpecType(ColumnOf(CurrentFile.rows, j))

\* C10: a column without any non-null field is created with type TEXT.
C10_AllNullColumnIsText ==
  (pc = "insert" /\ SplitAsWritten) =>
     \A j \in DOMAIN df.columns :
        (\A i \in DOMAIN CurrentFile.rows : CurrentFile.rows[i][j] = EmptyField) =>
           db[TableName(CurrentFile.stem)].columns[j].type = "TEXT"

(***************************************************************************)
(* Column names.                                                           *)
(***************************************************************************)
IsAlnum(c) == c \in Range(LowerCase) \cup Range(UpperCase) \cup Digits

\* the maximal runs of letters and digits of s, in lower case, in order
RECURSIVE AlnumRuns(_, _, _)
AlnumRuns(s, cur, acc) ==
  LET flushed == IF cur = <<>> THEN acc ELSE Append(acc, cur)
  IN IF s = <<>> THEN flushed
     ELSE IF IsAlnum(Head(s)) THEN AlnumRuns(Tail(s), Append(cur, LowerChar(Head(s))), acc)
     ELSE AlnumRuns(Tail(s), <<>>, flushed)

\* those runs joined by single underscores
JoinedRuns(s) ==
  LET runs_of_s == AlnumRuns(s, <<>>, <<>>)
  IN IF runs_of_s = <<>> THEN <<>> ELSE JoinChars(runs_of_s, "_")

ReservedWords == {W_date, W_from, W_to, W_text}

\* C11: the remap fires on exact matches of the name the other steps
\* produce and on nothing else: date becomes date_col; from, to and text get
\* the prefix col_; a name that only contains a reserved word (login_date)
\* is returned as the other steps left it, and From is remapped because it
\* is lowercased first.  No returned name is date, from, to or text.
C11_RemapExactOnly ==
  norm_pc = "returned" =>
  LET base == JoinedRuns(col_name)
  IN /\ base = W_date => normalized = <<"d","a","t","e","_","c","o","l">>
     /\ base = W_from => normalized = <<"c","o","l","_","f","r","o","m">>
     /\ base = W_to => normalized = <<"c","o","l","_","t","o">>
     /\ base = W_text => normalized = <<"c","o","l","_","t","e","x","t">>
     /\ base \notin ReservedWords => normalized = base
     /\ normalized \notin ReservedWords

\* the call returned login_date for a header that contains date
C11_Witness ==
  /\ norm_pc = "returned"
  /\ col_name = <<"l","o","g","i","n","_","d","a","t","e">>
  /\ normalized = col_name

\* the call returned col_from for the header From
C11_WitnessFrom ==
  /\ norm_pc = "returned"
  /\ col_name = <<"F","r","o","m">>
  /\ normalized = <<"c","o","l","_","f","r","o","m">>

NoDoubleUnderscore(s) == \A i \in 1..(Len(s) - 1) : ~(s[i] = "_" /\ s[i + 1] = "_")

WellFormedName(s) ==
  /\ Range(s) \subseteq Range(LowerCase) \cup Digits \cup {"_"}
  /\ s # <<>> => s[1] # "_" /\ s[Len(s)] # "_"
  /\ NoDoubleUnderscore(s)

\* C12 as stated: every call returns the result of the four textual steps
\* (replace what is outside [a-zA-Z0-9_], strip the underscores at both ends,
\* collapse the runs of underscores, lowercase), that is the header's runs of
\* letters and digits, lowercased and joined by single underscores, and that
\* result contains only [a-z0-9_], neither starts nor ends with an underscore
\* and has no two underscores in a row.
C12_ReturnsFourStepsResult ==
  norm_pc = "returned" =>
    /\ normalized = JoinedRuns(col_name)
    /\ WellFormedName(normalized)

\* C12, amended: the four textual steps produce the header's runs of letters
\* and digits, lowercased and joined by single underscores; the call returns
\* that result, except that the results date, from, to and text are returned
\* as date_col, col_from, col_to and col_text; the returned name contains
\* only [a-z0-9_], neither starts nor ends with an underscore and has no two
\* underscores in a row.
C12_FourStepsThenRemap ==
  norm_pc = "returned" =>
    LET base == JoinedRuns(col_name)
    IN /\ NormalizeSteps(col_name) = base
       /\ normalized = IF base = W_date THEN base \o <<"_","c","o","l">>
                       ELSE IF base \in ReservedWords THEN <<"c","o","l","_">> \o base
                       ELSE base
       /\ WellFormedName(normalized)

\* the call returned a_b for the header a!_B, which has a character outside
\* the class, a run of two underscores once it is replaced, and upper case
C12_Witness ==
  /\ norm_pc = "returned"
  /\ col_name = <<"a","!","_","B">>
  /\ normalized = <<"a","_","b">>

\* the call returned b for the header !_B followed by a space, stripped at
\* both ends
C12_WitnessStrip ==
  /\ norm_pc = "returned"
  /\ col_name = <<"!","_","B"," ">>
  /\ normalized = <<"b">>

(***************************************************************************)
(* The first-column row drop.                                              *)
(***************************************************************************)
RECURSIVE WithFirstField(_)
WithFirstField(rows) ==
  IF rows = <<>> THEN <<>>
  ELSE IF Head(rows)[1] = EmptyField THEN WithFirstField(Tail(rows))
  ELSE <<Head(rows)>> \o WithFirstField(Tail(rows))

\* C13: whichever of the seven strategies parsed the file, a loaded table
\* holds one row for each row of the file that has a first field, and no
\* stored row has a null or empty first column.
C13_EmptyFirstColumnDropped ==
  JustEnded("ok") =>
    /\ Len(CurrentTable.rows) = Len(WithFirstField(CurrentFile.rows))
    /\ \A i \in DOMAIN CurrentTable.rows : CurrentTable.rows[i][1] \notin {"NULL", EmptyField}

(***************************************************************************)
(* What the store file holds while and after a file is processed.          *)
(***************************************************************************)
\* the file's iteration is under way or has just ended
FileEntered == InFile \/ (pc = "for" /\ results # <<>>)

\* the committed table holds the columns and all the rows of the parsed file
FullyLoaded(table) ==
  /\ df # NoneFrame
  /\ table.columns = ColumnDefs(df)
  /\ Len(table.rows) = Len(df.rows)

\* C14: while a file is processed and after it, the committed table of the
\* file is either what it was when the file's processing began or the table
\* with all the file's rows; it is never created but empty, never partially
\* loaded.
C14_NoHalfBuiltTable ==
  FileEntered =>
    \/ CurrentTable = disk_before[TableName(CurrentFile.stem)]
    \/ FullyLoaded(CurrentTable)

\* C15: within one file no row is inserted before the CREATE has been
\* executed, and while a file is processed no other table's committed
\* content changes: the rows inserted for an earlier file were committed
\* before this file's processing began or are never committed, also when
\* the earlier insert failed part-way.
C15_LifecyclesDoNotInterleave ==
  FileEntered =>
    /\ \A i \in DOMAIN file_log :
         file_log[i] = "INSERT" => \E j \in 1..(i - 1) : file_log[j] = "CREATE"
    /\ \A t \in TableNames \ {TableName(CurrentFile.stem)} : disk[t] = disk_before[t]

CommitsIn(log) == {i \in DOMAIN log : log[i] = "COMMIT"}

C17_LatestSuccessfulLoadKept ==
  pc \in {"for", "idle"} =>
    \A t \in TableNames : last_ok[t] # NoTable => disk[t] = last_ok[t]

\* what does hold: the committed table is the latest successful load as
\* long as no later attempt has executed its DROP (an attempt that fails at
\* parse, or whose DROP the store refuses)
LatestLoadKeptUntilDrop ==
  pc \in {"for", "idle"} =>
    \A t \in TableNames :
      (last_ok[t] # NoTable /\ ~dropped_since[t]) => disk[t] = last_ok[t]

TablesInStore == {t \in TableNames : disk[t] # NoTable}

\* C18: after a run in which every discovered file was processed
\* successfully, distinct files have distinct tables and the store holds as
\* many tables as files were discovered.
C18_OneTablePerFile ==
  (run_state = "complete" /\ \A i \in DOMAIN results : results[i] = "ok") =>
    /\ \A i, j \in DOMAIN csv_files :
         i # j => TableName(csv_files[i].stem) # TableName(csv_files[j].stem)
    /\ Cardinality(TablesInStore) = Len(csv_files)

(***************************************************************************)
(* A directory of one well-formed and one unparseable file.                *)
(***************************************************************************)
WellFormed(f) == f.quirk = "clean"

\* how the chain of strategies ends on file f when entered at strategy k: a
\* ParserError of one of the first six passes on to the next strategy
RECURSIVE ChainOutcome(_, _)
ChainOutcome(f, k) ==
  IF StrategyOutcome(f, k) = "ParserError" /\ k < Len(StrategyPc)
    THEN ChainOutcome(f, k + 1)
    ELSE StrategyOutcome(f, k)

\* the chain does not produce a table of the file
Unparseable(f) == ChainOutcome(f, 1) # "ok"

\* C19: when the directory discovered holds one well-formed and one
\* unparseable file, in either order, and the store refuses no statement,
\* the run is not aborted, and once it has completed the store holds the
\* well-formed file's table and no table for the failing file, whatever it
\* held before, and exactly one failure was logged, for the failing file.
C19_GoodTableAndOneFailure ==
  \A g, b \in DOMAIN csv_files :
    (g # b /\ faults = 0
       /\ WellFormed(csv_files[g]) /\ Unparseable(csv_files[b])) =>
      /\ pc # "aborted"
      /\ run_state = "complete" =>
           /\ disk[TableName(csv_files[g].stem)] # NoTable
           /\ disk[TableName(csv_files[b].stem)] = NoTable
           /\ results[g] = "ok"
           /\ results[b] # "ok"

\* what does hold: when the headers of the well-formed file normalize to
\* distinct names, its table is in the store, and the failing file's table
\* is what it was when the file's processing began (a table loaded from an
\* earlier version of the file stays)
GoodTableAndFailingTableUntouched ==
  \A g, b \in DOMAIN csv_files :
    (g # b /\ faults = 0
       /\ WellFormed(csv_files[g]) /\ Unparseable(csv_files[b])
       /\ ~DuplicateColumnName(ColumnDefs(ReadCsvFrame(csv_files[g].headers,
                                                       csv_files[g].rows)))) =>
      /\ pc # "aborted"
      /\ run_state = "complete" =>
           /\ disk[TableName(csv_files[g].stem)] # NoTable
           /\ disk[TableName(csv_files[b].stem)] =
                disk_before[TableName(csv_files[b].stem)]
           /\ results[g] = "ok"
           /\ results[b] # "ok"

(***************************************************************************)
(* The column mapping.                                                     *)
(***************************************************************************)
\* the name the normalizer is to return for header h
ExpectedName(h) ==
  LET base == JoinedRuns(h)
  IN IF base = W_date THEN base \o <<"_","c","o","l">>
     ELSE IF base \in ReservedWords THEN <<"c","o","l","_">> \o base
     ELSE base

\* the strategies that split the header line at its commas
CommaStrategies == {k \in DOMAIN StrategyDelimiter : StrategyDelimiter[k] = ","} \cup {Len(StrategyPc)}

\* C20: when the rows of a file are about to be inserted and after they
\* were, column_mapping has one entry per column of that file's parsed
\* table, in order, keyed by the original header and holding its normalized
\* name, and nothing else, whatever the earlier files did.
C20_MappingScopedToFile ==
  (pc = "insert" \/ (pc = "for" /\ results # <<>> /\ data # <<>>)) =>
    /\ Len(column_mapping) = Len(df.columns)
    /\ \A i \in DOMAIN column_mapping :
         /\ column_mapping[i].k = df.columns[i]
         /\ column_mapping[i].v = ExpectedName(df.columns[i])
    /\ tried[Len(tried)] \in CommaStrategies => df.columns = CurrentFile.headers

\* the rows of nul.csv are about to be inserted after mail.csv, whose
\* mapping had other keys, failed at its CREATE
C20_Witness ==
  /\ pc = "insert"
  /\ attempted = <<"mail.csv", "nul.csv">>
  /\ results = <<"failed">>
  /\ column_mapping = << [k |-> H_id, v |-> H_id], [k |-> H_k, v |-> H_k] >>

C22_OnlyOpenFailureFatal ==
  /\ run_state = "fatal" =>
       /\ n_open = 0
       /\ pc = "idle"
       /\ csv_files = <<>>
       /\ attempted = <<>>
       /\ tried = <<>>
       /\ file_log = <<>>
       /\ disk = disk_before
  /\ n_open > 0 => run_state # "fatal" /\ pc # "aborted"

\* the open failed in a second run, after a first run had loaded a table
C22_Witness ==
  /\ run_state = "fatal"
  /\ runs > 1
  /\ TablesInStore # {}

(***************************************************************************)
(* The viewer.                                                             *)
(***************************************************************************)
\* C23: whatever requests the viewer has served, the store file holds the
\* tables, columns and rows it held when the viewer started; and the last
\* request executed only the table listing, PRAGMA table_info and SELECT on
\* its connection, without a commit.
C23_ViewerReadOnly ==
  /\ disk = disk_before
  /\ \A i \in DOMAIN view_log :
       view_log[i] \in ReadStatements \cup {"connect", "close"}

\* the index was served for a store of three or more tables
C23_Witness ==
  /\ request.route = "/"
  /\ response.status = "200"
  /\ Cardinality(response.tables) > 2
  /\ disk # EmptyStore


\* the chain of reader calls is running on the current file
Parsing == pc \in Range(StrategyPc)

\* the current file's iteration ended without a parsed table
ParseFailed == pc = "for" /\ results # <<>> /\ df = NoneFrame

\* C24: while a file is being parsed, and after its iteration has ended with
\* no parsed table (the manual fallback raised, or an earlier reader call
\* raised an error its handler does not pass on), the file is recorded as
\* skipped or failed and has had no effect: no statement was executed and no
\* commit issued in its iteration, column_mapping is the one of the moment
\* the iteration began, and the committed content of every table is the one
\* of that moment.
C24_ParseFailureLeavesStore ==
  /\ ParseFailed => results[Len(results)] \in {"failed", "skipped"}
  /\ (Parsing \/ ParseFailed) =>
       /\ file_log = <<>>
       /\ column_mapping = mapping_before
       /\ disk = disk_before

\* the second file of a run was skipped by the manual fallback after the
\* first one was loaded
C24_Witness ==
  /\ JustEnded("skipped")
  /\ df = NoneFrame
  /\ tried = <<1, 2, 3, 4, 5, 6, 7>>
  /\ Len(results) = 2
  /\ results[1] = "ok"
  /\ column_mapping # <<>>
  /\ disk # EmptyStore


\* the strategies that read the file as UTF-8 (1 to 3) and as Latin-1 (4 to 6)
Utf8Strategies == {k \in DOMAIN StrategyEncoding : StrategyEncoding[k] = "utf-8"}
Latin1Strategies == {k \in DOMAIN StrategyEncoding : StrategyEncoding[k] = "latin1"}

\* C25: when the reader call of one of the strategies 1 to 6 raises an
\* exception that is not a ParserError, that call is the last one made for
\* the file: the iteration has ended, the file is recorded as failed, no
\* table was parsed and no statement executed.  A Latin-1 strategy is tried
\* only after each of the strategies 1, 2 and 3 was tried before it and
\* raised a ParserError.
C25_OtherErrorEndsChain ==
  (attempted # <<>> /\ tried # <<>>) =>
    LET k == tried[Len(tried)]
    IN /\ (k \in DOMAIN StrategyEncoding
             /\ StrategyOutcome(CurrentFile, k) \notin {"ok", "ParserError"}) =>
            /\ pc \in {"for", "idle"}
            /\ Len(results) = Len(attempted)
            /\ results[Len(results)] = "failed"
            /\ df = NoneFrame
            /\ file_log = <<>>
       /\ \A i \in DOMAIN tried :
            tried[i] \in Latin1Strategies =>
              \A j \in Utf8Strategies :
                /\ \E h \in 1..(i - 1) : tried[h] = j
                /\ StrategyOutcome(CurrentFile, j) = "ParserError"

\* a Latin-1 file whose first reader call raised a decoding error: the file
\* failed with that one call made
C25_Witness ==
  /\ JustEnded("failed")
  /\ CurrentFile.quirk = "latin1"
  /\ StrategyOutcome(CurrentFile, Head(tried)) = "UnicodeDecodeError"
  /\ Len(tried) = Len(<<"s1">>)
  /\ df = NoneFrame

\* a Latin-1 strategy was tried on a file
C25_WitnessLatin1 ==
  /\ attempted # <<>>
  /\ tried # <<>>
  /\ tried[Len(tried)] \in Latin1Strategies


\* C26: _normalize_column_name is idempotent: the call made on the name an
\* earlier call returned returns that name unchanged, and every name a call
\* was made on twice is left as the first call returned it; this holds for
\* date_col, col_from, col_to and col_text too.
C26_NormalizeIdempotent ==
  norm_pc = "returned_again" =>
    /\ normalized = col_name
    /\ \A c \in norm_calls : [col_name |-> c.normalized, normalized |-> c.normalized] \in norm_calls

\* the header DATE gave date_col, and date_col was normalized again
C26_Witness ==
  /\ norm_pc = "returned_again"
  /\ col_name = W_date \o <<"_","c","o","l">>
  /\ [col_name |-> <<"D","A","T","E">>, normalized |-> col_name] \in norm_calls

\* the header text gave col_text, and col_text was normalized again
C26_WitnessText ==
  /\ norm_pc = "returned_again"
  /\ col_name = <<"c","o","l","_">> \o W_text
  /\ \E c \in norm_calls : c.col_name # col_name /\ c.normalized = col_name

====
